---- MODULE Spec2Model ----
(***************************************************************************)
(* Model of bme280_mqtt_daemon.py: the poll loop of start_bme280_sensor,   *)
(* the on_connect callback run by the MQTT client's background thread,     *)
(* the signal handler receive_signal and the payload built by publish_mqtt.*)
(*                                                                         *)
(* Floats are fixed-point integers in thousandths (Scale); wall-clock time *)
(* is counted in ticks of 1/TicksPerSec second.                            *)
(***************************************************************************)
EXTENDS Integers, Sequences, FiniteSets, TLC

VARIABLES
    pc,             \* position of the main thread in start_bme280_sensor
    now,            \* wall clock when the main thread last woke up, in ticks
    waits,          \* number of sleeps of the connection wait loop
    daemon,         \* args.daemon: the signal handlers are installed
    options,        \* Options object (userdata of the client)
    connected_flag, \* client.connected_flag
    read_loop,      \* global read_loop
    first_read,     \* local first_read
    sensor_data,    \* SensorData object
    link,           \* state of the broker connection kept by the bus thread
    bus_thread,     \* the client's network loop thread is running
    conn_out,       \* what the last on_connect callback did
    state_msg,      \* payload of the last state message, <<>> if none
    nstate,         \* number of state messages published
    status,         \* payload of the last availability message
    noffline,       \* number of "offline" availability messages published
    out,            \* what the last completed poll iteration did
    script          \* pressures the sensor is to return on minute boundaries

vars == <<pc, now, waits, daemon, options, connected_flag, read_loop, first_read,
          sensor_data, link, bus_thread, conn_out, state_msg, nstate,
          status, noffline, out, script>>

----------------------------------------------------------------------------
(* Bounds of the model *)

TicksPerSec == 1        \* clock resolution
MaxOverhead == 1        \* ticks the work of an iteration may take
MaxWaits == 1           \* sleeps of the connection wait loop
MaxTime == 241          \* seconds after which the clock stops
StartSec == 179         \* earliest start of the program, in seconds
ScenarioStartSec == 59  \* start of the four-boundary scenario, in seconds

(* Program constants *)

Scale == 1000           \* fixed-point resolution of the floats
SEALEVEL_MIN == -999
SLEEP_TIME == 1
CONNECT_WAIT == 10
PUBLISH_PERIOD == 60
PRESSURE_FLOOR == 800
ELEV_NUM == 10          \* elevation / 9.2 is elevation * ELEV_NUM / ELEV_DEN
ELEV_DEN == 92

----------------------------------------------------------------------------
(* Numeric helpers *)

\* n/d rounded to the nearest integer, ties to the even one (Python round)
RoundDiv(n, d) ==
    LET q == n \div d
        r == n % d
    IN  IF 2 * r < d THEN q
        ELSE IF 2 * r > d THEN q + 1
        ELSE IF q % 2 = 0 THEN q ELSE q + 1

\* int(round(time.time())), in seconds
my_time_of(t) == RoundDiv(t, TicksPerSec)

\* round(x, 1) and round(x, 2) of a fixed-point value
Round1(x) == RoundDiv(x, Scale \div 10) * (Scale \div 10)
Round2(x) == RoundDiv(x, Scale \div 100) * (Scale \div 100)

\* round(press_A + elevation / 9.2, 2)
RoundSealevel(press_A, elevation) ==
    RoundDiv(press_A * ELEV_DEN + elevation * ELEV_NUM,
             ELEV_DEN * (Scale \div 100)) * (Scale \div 100)

----------------------------------------------------------------------------
(* Inputs *)

\* what sensor.get_temperature / get_humidity / get_pressure may return
Readings ==
    { [temperature |-> 20000,  humidity |-> 50000, pressure |-> 1013000],
      [temperature |-> 20040,  humidity |-> 50060, pressure |-> 1010000],
      [temperature |-> -3260,  humidity |-> 99940, pressure |-> 800000],
      [temperature |-> 21500,  humidity |-> 0,     pressure |-> 700000] }

\* the readings of the end-to-end scenario, one per minute boundary
Scenario == <<800000, 1013000, 700000, 1010000>>

\* the Options object after the configuration section has been read
Configs ==
    { [toffset |-> 0, hoffset |-> 0, poffset |-> 0,
       elevation |-> SEALEVEL_MIN * Scale, section |-> "X"],
      [toffset |-> -1500, hoffset |-> 2500, poffset |-> -250000,
       elevation |-> 92000, section |-> "BME280"],
      [toffset |-> 500, hoffset |-> -50, poffset |-> 150000,
       elevation |-> -1000000, section |-> "BME280"] }

\* readings and configurations publish_mqtt is called with directly
CalcReadings ==
    [temperature : {20000, 20040, 20060, -3260},
     humidity : {50000, 50060},
     pressure : {1013000, 1010004, 1010006, 700000}]

CalcConfigs ==
    [toffset : {0, -1500}, hoffset : {0, 2500}, poffset : {0, -250000},
     elevation : {SEALEVEL_MIN * Scale, -1000000, 0, 1000, 92000},
     section : {"X"}]

\* return codes the broker may answer a connection attempt with
ReturnCodes == {0, 5}

----------------------------------------------------------------------------
(* Topics and payloads *)

\* class Topics: the discovery topic of one metric
config_topic(section, metric) == <<section, metric, "config">>

availability_topic == <<"status">>
state_topic == <<"state">>

Lower == [Temperature |-> "temperature", Humidity |-> "humidity",
          Pressure |-> "pressure", Sealevel |-> "sealevel"]

\* variant of sensor_configs: the sea-level entry is always appended
sensor_configs_always(userdata) ==
    << <<"Temperature", "C", "temperature",
         config_topic(userdata.section, "temperature")>>,
       <<"Humidity", "%", "humidity",
         config_topic(userdata.section, "humidity")>>,
       <<"Pressure", "hPa", "pressure",
         config_topic(userdata.section, "pressure")>>,
       <<"Sealevel", "hPa", "pressure",
         config_topic(userdata.section, "sealevel")>> >>

\* on_connect: the list sensor_configs
sensor_configs(userdata) ==
    LET base == << <<"Temperature", "C", "temperature",
                     config_topic(userdata.section, "temperature")>>,
                   <<"Humidity", "%", "humidity",
                     config_topic(userdata.section, "humidity")>>,
                   <<"Pressure", "hPa", "pressure",
                     config_topic(userdata.section, "pressure")>> >>
    IN  IF userdata.elevation > SEALEVEL_MIN * Scale
        THEN Append(base, <<"Sealevel", "hPa", "pressure",
                            config_topic(userdata.section, "sealevel")>>)
        ELSE base

\* on_connect: the descriptor of one entry of sensor_configs
ha_sensor_config(sensor, userdata) ==
    [availability_topic |-> availability_topic,
     device_class |-> sensor[3],
     name |-> sensor[1],
     state_class |-> "measurement",
     state_topic |-> state_topic,
     unique_id |-> Lower[sensor[1]],
     unit_of_measurement |-> sensor[2],
     value_template |-> <<userdata.section, Lower[sensor[1]]>>]

\* on_connect: the messages of the for loop, in the order they are published
RECURSIVE announce_from(_, _, _)
announce_from(configs, i, userdata) ==
    IF i > Len(configs) THEN <<>>
    ELSE << [topic |-> configs[i][4],
             payload |-> ha_sensor_config(configs[i], userdata),
             retain |-> TRUE],
            [topic |-> availability_topic, payload |-> "online",
             retain |-> TRUE] >>
         \o announce_from(configs, i + 1, userdata)

\* variant of announce_msgs: "online" is published once, after the loop
announce_msgs_online_last(userdata) ==
    LET configs == sensor_configs(userdata)
    IN  [i \in 1 .. Len(configs) |->
            [topic |-> configs[i][4],
             payload |-> ha_sensor_config(configs[i], userdata),
             retain |-> TRUE]]
        \o << [topic |-> availability_topic, payload |-> "online",
               retain |-> TRUE] >>

announce_msgs(userdata) == announce_from(sensor_configs(userdata), 1, userdata)

\* variants of publish_mqtt: the sentinel itself enables the sea-level
\* field; the temperature and humidity offsets are swapped
publish_mqtt_sentinel(reading, opts) ==
    LET hum == reading.humidity + opts.hoffset
        temp_C == reading.temperature + opts.toffset
        press_A == reading.pressure + opts.poffset
        sealevel == opts.elevation >= SEALEVEL_MIN * Scale
        keys == {"humidity", "temperature", "pressure"}
                \cup (IF sealevel THEN {"sealevel"} ELSE {})
    IN  [k \in {<<opts.section, f>> : f \in keys} |->
            CASE k[2] = "humidity" -> Round1(hum)
              [] k[2] = "temperature" -> Round1(temp_C)
              [] k[2] = "pressure" -> Round2(press_A)
              [] k[2] = "sealevel" -> RoundSealevel(press_A, opts.elevation)]

publish_mqtt_swapped(reading, opts) ==
    LET hum == reading.humidity + opts.toffset
        temp_C == reading.temperature + opts.hoffset
        press_A == reading.pressure + opts.poffset
        sealevel == opts.elevation > SEALEVEL_MIN * Scale
        keys == {"humidity", "temperature", "pressure"}
                \cup (IF sealevel THEN {"sealevel"} ELSE {})
    IN  [k \in {<<opts.section, f>> : f \in keys} |->
            CASE k[2] = "humidity" -> Round1(hum)
              [] k[2] = "temperature" -> Round1(temp_C)
              [] k[2] = "pressure" -> Round2(press_A)
              [] k[2] = "sealevel" -> RoundSealevel(press_A, opts.elevation)]

\* publish_mqtt: the dictionary data sent to the state topic
publish_mqtt(reading, opts) ==
    LET hum == reading.humidity + opts.hoffset
        temp_C == reading.temperature + opts.toffset
        press_A == reading.pressure + opts.poffset
        sealevel == opts.elevation > SEALEVEL_MIN * Scale
        keys == {"humidity", "temperature", "pressure"}
                \cup (IF sealevel THEN {"sealevel"} ELSE {})
    IN  [k \in {<<opts.section, f>> : f \in keys} |->
            CASE k[2] = "humidity" -> Round1(hum)
              [] k[2] = "temperature" -> Round1(temp_C)
              [] k[2] = "pressure" -> Round2(press_A)
              [] k[2] = "sealevel" -> RoundSealevel(press_A, opts.elevation)]

----------------------------------------------------------------------------
(* Initial states *)

\* no poll iteration has completed yet
NoIteration ==
    [kind |-> "none", first_read |-> TRUE, my_time |-> -1, again |-> FALSE,
     missed |-> FALSE,
     fault |-> FALSE, setups |-> 0, cadence |-> FALSE, pubs |-> 0,
     scripted |-> 0]

\* no on_connect callback has run yet
NoCallback == [rc |-> -1, reconnect |-> FALSE, msgs |-> <<>>]

\* class SensorData, __init__
NewSensorData == [temperature |-> 0, humidity |-> 0, pressure |-> 0]

\* the state in which start_bme280_sensor reaches its wait loop, the
\* configuration read and the connection attempt started
InitAt(start) ==
    /\ pc = "wait"
    /\ now \in { start * TicksPerSec + k : k \in 0 .. (TicksPerSec - 1) }
    /\ waits = 0
    /\ daemon \in BOOLEAN
    /\ options \in Configs
    /\ connected_flag = FALSE
    /\ read_loop = TRUE
    /\ first_read = TRUE
    /\ sensor_data = NewSensorData
    /\ link = "down"
    /\ bus_thread = TRUE
    /\ conn_out = NoCallback
    /\ state_msg = <<>>
    /\ nstate = 0
    /\ status = "none"
    /\ noffline = 0
    /\ out = NoIteration

Init == InitAt(StartSec) /\ script = <<>>

\* the end-to-end scenario: the daemon runs with zero offsets and the sensor
\* returns Scenario on the successive minute boundaries
InitScenario ==
    /\ InitAt(ScenarioStartSec)
    /\ daemon
    /\ options.toffset = 0 /\ options.hoffset = 0 /\ options.poffset = 0
    /\ script = Scenario

----------------------------------------------------------------------------
(* The background thread of the MQTT client *)

\* variant of on_connect: the announcement is made on the first connection
\* only
on_connect_once(return_code) ==
    /\ bus_thread
    /\ link = "down"
    /\ pc \notin {"exit", "killed", "crashed"}
    /\ IF return_code # 0
       THEN /\ conn_out' = [rc |-> return_code, reconnect |-> connected_flag,
                            msgs |-> <<>>]
            /\ UNCHANGED <<connected_flag, link, status>>
       ELSE /\ connected_flag' = TRUE
            /\ link' = "up"
            /\ conn_out' = [rc |-> 0, reconnect |-> connected_flag,
                            msgs |-> IF connected_flag THEN <<>>
                                     ELSE announce_msgs(options)]
            /\ status' = IF connected_flag THEN status ELSE "online"
    /\ UNCHANGED <<pc, now, waits, daemon, options, read_loop, first_read,
                   sensor_data, bus_thread, state_msg, nstate, noffline, out,
                   script>>

\* variant of on_connect: the flag is set whatever the return code
on_connect_any_rc(return_code) ==
    /\ bus_thread
    /\ link = "down"
    /\ pc \notin {"exit", "killed", "crashed"}
    /\ connected_flag' = TRUE
    /\ IF return_code # 0
       THEN /\ conn_out' = [rc |-> return_code, reconnect |-> connected_flag,
                            msgs |-> <<>>]
            /\ UNCHANGED <<link, status>>
       ELSE /\ link' = "up"
            /\ conn_out' = [rc |-> 0, reconnect |-> connected_flag,
                            msgs |-> announce_msgs(options)]
            /\ status' = "online"
    /\ UNCHANGED <<pc, now, waits, daemon, options, read_loop, first_read,
                   sensor_data, bus_thread, state_msg, nstate, noffline, out,
                   script>>

\* on_connect(client, userdata, flags, return_code)
on_connect(return_code) ==
    /\ bus_thread
    /\ link = "down"
    /\ pc \notin {"exit", "killed", "crashed"}
    /\ IF return_code # 0
       THEN /\ conn_out' = [rc |-> return_code, reconnect |-> connected_flag,
                            msgs |-> <<>>]
            /\ UNCHANGED <<connected_flag, link, status>>
       ELSE /\ connected_flag' = TRUE
            /\ link' = "up"
            /\ conn_out' = [rc |-> 0, reconnect |-> connected_flag,
                            msgs |-> announce_msgs(options)]
            /\ status' = "online"
    /\ UNCHANGED <<pc, now, waits, daemon, options, read_loop, first_read,
                   sensor_data, bus_thread, state_msg, nstate, noffline, out,
                   script>>

\* the broker connection is lost; the client's loop will reconnect
ConnectionLost ==
    /\ bus_thread
    /\ link = "up"
    /\ link' = "down"
    /\ UNCHANGED <<pc, now, waits, daemon, options, connected_flag, read_loop,
                   first_read, sensor_data, bus_thread, conn_out,
                   state_msg, nstate, status, noffline, out, script>>

----------------------------------------------------------------------------
(* Signals *)

\* SIGHUP, SIGINT, SIGQUIT or SIGTERM is delivered.  start_daemon maps them
\* to receive_signal; without --daemon no handler is installed and the
\* signal ends the process.
receive_signal ==
    /\ pc \notin {"exit", "killed", "crashed"}
    /\ IF daemon
       THEN /\ read_loop' = FALSE
            /\ UNCHANGED <<pc, bus_thread, link>>
       ELSE /\ pc' = "killed"
            /\ bus_thread' = FALSE
            /\ link' = "down"
            /\ UNCHANGED read_loop
    /\ UNCHANGED <<now, waits, daemon, options, connected_flag, first_read,
                   sensor_data, conn_out, state_msg, nstate, status,
                   noffline, out, script>>

----------------------------------------------------------------------------
(* The main thread: start_bme280_sensor *)

\* variant of WaitConnected: the thread goes on without the connection
WaitConnected_nowait ==
    /\ pc = "wait"
    /\ pc' = "setup"
    /\ UNCHANGED <<now, waits, daemon, options, connected_flag, read_loop,
                   first_read, sensor_data, link, bus_thread, conn_out,
                   state_msg, nstate, status, noffline, out, script>>

\* while not client.connected_flag: time.sleep(10)
WaitConnected ==
    /\ pc = "wait"
    /\ IF connected_flag
       THEN /\ pc' = "setup"
            /\ UNCHANGED <<now, waits>>
       ELSE /\ waits < MaxWaits
            /\ now + CONNECT_WAIT * TicksPerSec <= MaxTime * TicksPerSec
            /\ now' = now + CONNECT_WAIT * TicksPerSec
            /\ waits' = waits + 1
            /\ UNCHANGED pc
    /\ UNCHANGED <<daemon, options, connected_flag, read_loop, first_read,
                   sensor_data, link, bus_thread, conn_out, state_msg,
                   nstate, status, noffline, out, script>>

\* variant of InitSensor: the warm-up flag starts cleared
InitSensor_no_warmup ==
    /\ pc = "setup"
    /\ sensor_data' = NewSensorData
    /\ first_read' = FALSE
    /\ read_loop' = TRUE
    /\ pc' = "loop"
    /\ UNCHANGED <<now, waits, daemon, options, connected_flag, link,
                   bus_thread, conn_out, state_msg, nstate, status, noffline,
                   out, script>>

\* sensor.setup, sensor_data = SensorData(), first_read = True,
\* read_loop = True
InitSensor ==
    /\ pc = "setup"
    /\ sensor_data' = NewSensorData
    /\ first_read' = TRUE
    /\ read_loop' = TRUE
    /\ pc' = "loop"
    /\ UNCHANGED <<now, waits, daemon, options, connected_flag, link, bus_thread,
                   conn_out, state_msg, nstate, status, noffline, out,
                   script>>

\* variants of is_fault: the station pressure is tested; the floor is
\* inclusive
is_fault_station(first, reading) ==
    ~first /\ reading.pressure + options.poffset < PRESSURE_FLOOR * Scale

is_fault_inclusive(first, reading) ==
    ~first /\ reading.pressure <= PRESSURE_FLOOR * Scale

\* the test of one reading: not first_read and sensor_data.pressure < 800
is_fault(first, reading) ==
    ~first /\ reading.pressure < PRESSURE_FLOOR * Scale

\* my_time % 60 == 0
on_boundary(my_time) == my_time % PUBLISH_PERIOD = 0

\* variants of should_publish: the warm-up test is missing; the boundary
\* test is missing
should_publish_warmup(first, fault, my_time) ==
    ~fault /\ my_time % PUBLISH_PERIOD = 0

should_publish_always(first, fault, my_time) ==
    ~fault /\ ~first

\* the tests guarding the call of publish_mqtt: the fault path was not
\* taken, my_time % 60 == 0, not first_read
should_publish(first, fault, my_time) ==
    ~fault /\ on_boundary(my_time) /\ ~first

\* variants of next_first_read: the fault path sets the flag again; every
\* valid reading clears it
next_first_read_rearm(first, fault, my_time) ==
    IF fault THEN TRUE
    ELSE IF my_time % PUBLISH_PERIOD = 0 THEN FALSE ELSE first

next_first_read_any(first, fault, my_time) ==
    IF ~fault THEN FALSE ELSE first

\* first_read after a pass: "first_read = False" stands in the block of
\* "if my_time % 60 == 0", which the fault path does not reach
next_first_read(first, fault, my_time) ==
    IF ~fault /\ on_boundary(my_time) THEN FALSE ELSE first

\* one pass through the body of "while read_loop": the clock is read ov
\* ticks after the thread woke up (the work of the pass before, or the
\* sensor setup, took that long), the reading r is taken, the pass sleeps
PollIteration(r, ov) ==
    /\ pc = "loop"
    /\ read_loop
    /\ now + ov + SLEEP_TIME * TicksPerSec <= MaxTime * TicksPerSec
    /\ (script # <<>> /\ on_boundary(my_time_of(now + ov)))
            => r.pressure = Head(script)
    /\ LET my_time == my_time_of(now + ov)
           scripted == script # <<>> /\ on_boundary(my_time)
           fault == is_fault(first_read, r)
           cadence == ~fault
           publish == should_publish(first_read, fault, my_time)
       IN  /\ sensor_data' = r
           /\ first_read' = next_first_read(first_read, fault, my_time)
           /\ state_msg' = IF publish THEN publish_mqtt(r, options)
                           ELSE state_msg
           /\ nstate' = IF publish THEN nstate + 1 ELSE nstate
           /\ out' = [kind |-> IF out.kind = "none" THEN "first"
                               ELSE IF out.fault THEN "after_reset"
                               ELSE "other",
                      first_read |-> first_read,
                      my_time |-> my_time,
                      again |-> out.kind # "none" /\ out.my_time = my_time,
                      missed |-> /\ out.kind # "none"
                                 /\ \E b \in (out.my_time + 1) .. (my_time - 1) :
                                        on_boundary(b),
                      fault |-> fault,
                      setups |-> IF fault THEN 1 ELSE 0,
                      cadence |-> cadence,
                      pubs |-> IF publish THEN 1 ELSE 0,
                      scripted |-> IF scripted
                                   THEN Len(Scenario) - Len(script) + 1
                                   ELSE 0]
           /\ script' = IF scripted THEN Tail(script) ELSE script
    /\ now' = now + ov + SLEEP_TIME * TicksPerSec
    /\ UNCHANGED <<pc, waits, daemon, options, connected_flag, read_loop, link,
                   bus_thread, conn_out, status, noffline>>

\* sensor.get_temperature, get_humidity, get_pressure or sensor.setup raises
\* (an I/O error on the bus): nothing catches the exception, the process
\* ends with a traceback and its threads with it
SensorError ==
    /\ pc = "loop"
    /\ read_loop
    /\ pc' = "crashed"
    /\ bus_thread' = FALSE
    /\ link' = "down"
    /\ UNCHANGED <<now, waits, daemon, options, connected_flag, read_loop,
                   first_read, sensor_data, conn_out, state_msg, nstate,
                   status, noffline, out, script>>

\* "while read_loop" finds the flag cleared
LoopExit ==
    /\ pc = "loop"
    /\ ~read_loop
    /\ pc' = "offline"
    /\ UNCHANGED <<now, waits, daemon, options, connected_flag, read_loop,
                   first_read, sensor_data, link, bus_thread, conn_out,
                   state_msg, nstate, status, noffline, out, script>>

\* variant of PublishOffline: the message is not sent
PublishOffline_skipped ==
    /\ pc = "offline"
    /\ pc' = "loop_stop"
    /\ UNCHANGED <<now, waits, daemon, options, connected_flag, read_loop,
                   first_read, sensor_data, link, bus_thread, conn_out,
                   state_msg, nstate, status, noffline, out, script>>

\* client.publish(availability_topic, "offline", retain=True)
PublishOffline ==
    /\ pc = "offline"
    /\ status' = "offline"
    /\ noffline' = noffline + 1
    /\ pc' = "loop_stop"
    /\ UNCHANGED <<now, waits, daemon, options, connected_flag, read_loop,
                   first_read, sensor_data, link, bus_thread, conn_out,
                   state_msg, nstate, out, script>>

\* client.loop_stop()
LoopStop ==
    /\ pc = "loop_stop"
    /\ bus_thread' = FALSE
    /\ pc' = "disconnect"
    /\ UNCHANGED <<now, waits, daemon, options, connected_flag, read_loop,
                   first_read, sensor_data, link, conn_out, state_msg,
                   nstate, status, noffline, out, script>>

\* client.disconnect(), then main returns and the process exits
Disconnect ==
    /\ pc = "disconnect"
    /\ link' = "down"
    /\ pc' = "exit"
    /\ UNCHANGED <<now, waits, daemon, options, connected_flag, read_loop,
                   first_read, sensor_data, bus_thread, conn_out,
                   state_msg, nstate, status, noffline, out, script>>

----------------------------------------------------------------------------
(* Specifications *)

Poll == \E r \in Readings, ov \in 0 .. MaxOverhead : PollIteration(r, ov)

Connect == \E rc \in ReturnCodes : on_connect(rc)

Next ==
    \/ WaitConnected
    \/ InitSensor
    \/ Poll
    \/ SensorError
    \/ LoopExit
    \/ PublishOffline
    \/ LoopStop
    \/ Disconnect
    \/ Connect
    \/ ConnectionLost
    \/ receive_signal

Spec == Init /\ [][Next]_vars

SpecScenario == InitScenario /\ [][Next]_vars

\* the steps of the main thread, which runs whenever it can
MainThread ==
    \/ WaitConnected
    \/ InitSensor
    \/ Poll
    \/ SensorError
    \/ LoopExit
    \/ PublishOffline
    \/ LoopStop
    \/ Disconnect

FairSpec == Init /\ [][Next]_vars /\ WF_vars(MainThread)

\* publish_mqtt called on its own, with a reading and a configuration
InitCalc ==
    /\ pc = "publish_mqtt"
    /\ sensor_data \in CalcReadings
    /\ options \in CalcConfigs
    /\ now = 0 /\ waits = 0 /\ daemon = FALSE
    /\ connected_flag = TRUE /\ read_loop = TRUE /\ first_read = FALSE
    /\ link = "up" /\ bus_thread = TRUE
    /\ conn_out = NoCallback
    /\ state_msg = <<>> /\ nstate = 0
    /\ status = "none" /\ noffline = 0
    /\ out = NoIteration
    /\ script = <<>>

CallPublish ==
    /\ pc = "publish_mqtt"
    /\ state_msg' = publish_mqtt(sensor_data, options)
    /\ nstate' = nstate + 1
    /\ pc' = "published"
    /\ UNCHANGED <<now, waits, daemon, options, connected_flag, read_loop,
                   first_read, sensor_data, link, bus_thread, conn_out,
                   status, noffline, out, script>>

NextCalc == CallPublish

SpecCalc == InitCalc /\ [][NextCalc]_vars

----------------------------------------------------------------------------
(* The fault detector *)

Floor == PRESSURE_FLOOR * Scale

\* a poll iteration has completed; sensor_data and out describe it
Iterated == out.kind # "none"

\* the reading of the last iteration was not the first sample
NotFirstSample == out.kind \in {"after_reset", "other"}

StationPressure == sensor_data.pressure + options.poffset

\* the last iteration took the fault path: one reset, nothing published
FaultPath == out.fault /\ out.setups = 1 /\ out.pubs = 0

\* the last iteration took the normal path: no reset, cadence test reached
ValidPath == ~out.fault /\ out.setups = 0 /\ out.cadence

\* C1 as stated: every reading but the first sample whose station pressure
\* (raw pressure plus poffset) is below 800 takes the fault path, is reset
\* exactly once and is not published.
C1_StationBelowFloorFaults ==
    (NotFirstSample /\ StationPressure < Floor) => FaultPath

\* C1 amended: every reading taken once the warm-up flag is cleared and
\* whose raw pressure is below 800 takes the fault path, is reset exactly
\* once and is not published.
C1_RawBelowFloorFaults ==
    (Iterated /\ ~out.first_read /\ sensor_data.pressure < Floor) => FaultPath

\* a faulty raw reading was reset although its station pressure is plausible
C1_Witness ==
    /\ Iterated /\ ~out.first_read
    /\ sensor_data.pressure < Floor /\ StationPressure >= Floor
    /\ FaultPath

\* C2 as stated: every reading but the first sample whose station pressure
\* is at least 800 is valid: no reset, the cadence test is not skipped.
C2_StationAtLeastFloorValid ==
    (NotFirstSample /\ StationPressure >= Floor) => ValidPath

\* C2 amended: every reading but the first sample whose raw pressure is at
\* least 800 is valid, whatever the pressure offset: no reset, the cadence
\* test is not skipped.
C2_RawAtLeastFloorValid ==
    (NotFirstSample /\ sensor_data.pressure >= Floor) => ValidPath

\* a reading at the floor, its station pressure under it, was kept
C2_Witness ==
    /\ NotFirstSample /\ ~out.first_read
    /\ sensor_data.pressure = Floor /\ StationPressure < Floor
    /\ ValidPath

----------------------------------------------------------------------------
(* Warm-up *)

\* C3 as stated: neither the first reading after startup nor the first
\* reading after a sensor reset is ever published.
C3_FirstAndAfterResetUnpublished ==
    out.kind \in {"first", "after_reset"} => out.pubs = 0

\* C3 amended: the first reading after startup is never published, whatever
\* its value and whether or not it falls on a minute boundary.
C3_FirstReadingUnpublished ==
    out.kind = "first" => (out.pubs = 0 /\ state_msg = <<>> /\ nstate = 0)

\* the first reading was plausible and on a minute boundary, yet discarded
C3_Witness ==
    /\ out.kind = "first"
    /\ out.my_time % PUBLISH_PERIOD = 0
    /\ sensor_data.pressure >= Floor
    /\ out.pubs = 0

----------------------------------------------------------------------------
(* The end-to-end scenario 800, 1013, 700, 1010 *)

\* C4: of the boundary readings 800, 1013, 700, 1010 the first is discarded
\* as warm-up, the second and the fourth are published, the third is reset
\* once and not published.
C4_ScenarioOutcome ==
    /\ out.scripted = 1 => (out.first_read /\ out.pubs = 0 /\ out.setups = 0
                            /\ nstate = 0)
    /\ out.scripted = 2 => (out.pubs = 1 /\ out.setups = 0 /\ nstate = 1)
    /\ out.scripted = 3 => (out.pubs = 0 /\ out.setups = 1 /\ nstate = 1)
    /\ out.scripted = 4 => (out.pubs = 1 /\ out.setups = 0 /\ nstate = 2)

\* the fourth boundary reading of the scenario has been taken
C4_Witness ==
    /\ out.scripted = 4 /\ script = <<>>
    /\ sensor_data.pressure = Scenario[4]
    /\ nstate = 2

----------------------------------------------------------------------------
(* Cadence *)

\* C5 as stated: once warm-up is over every minute boundary yields exactly
\* one publish: it is hit by an iteration, that iteration publishes, no
\* second iteration publishes for it and no other iteration publishes.
C5_OnePublishPerBoundary ==
    (Iterated /\ ~out.first_read) =>
        /\ ~out.missed
        /\ out.pubs = IF out.my_time % PUBLISH_PERIOD = 0 /\ ~out.again
                      THEN 1 ELSE 0

\* C5 amended: once warm-up is over an iteration publishes exactly one state
\* message when its rounded time is a multiple of 60 and its raw pressure is
\* at least 800, and none otherwise.
C5_PublishOnValidBoundary ==
    (Iterated /\ ~out.first_read) =>
        out.pubs = IF /\ out.my_time % PUBLISH_PERIOD = 0
                      /\ sensor_data.pressure >= Floor
                   THEN 1 ELSE 0

\* a publish on a minute boundary after warm-up
C5_Witness ==
    /\ Iterated /\ ~out.first_read
    /\ out.my_time % PUBLISH_PERIOD = 0
    /\ out.pubs = 1 /\ nstate = 1

----------------------------------------------------------------------------
(* Discovery *)

\* the last on_connect callback published the retained descriptor of metric
Announced(metric) ==
    \E i \in 1 .. Len(conn_out.msgs) :
        /\ conn_out.msgs[i].topic = <<options.section, metric, "config">>
        /\ conn_out.msgs[i].retain
        /\ conn_out.msgs[i].payload.value_template = <<options.section, metric>>

\* the last on_connect callback published the retained "online" status
AnnouncedOnline ==
    \E i \in 1 .. Len(conn_out.msgs) :
        /\ conn_out.msgs[i].topic = <<"status">>
        /\ conn_out.msgs[i].retain
        /\ conn_out.msgs[i].payload = "online"

\* C6 as stated: every on_connect with return code 0 publishes the four
\* descriptors and the retained "online" status, for every configuration.
C6_AllFourAnnounced ==
    conn_out.rc = 0 =>
        /\ \A m \in {"temperature", "humidity", "pressure", "sealevel"} :
              Announced(m)
        /\ AnnouncedOnline

\* C6 amended: every on_connect with return code 0, the first and every
\* reconnect, publishes the temperature, humidity and pressure descriptors
\* and the retained "online" status; it publishes the sealevel descriptor
\* exactly when the elevation exceeds the sentinel -999.
C6_ConfiguredAnnounced ==
    conn_out.rc = 0 =>
        /\ \A m \in {"temperature", "humidity", "pressure"} : Announced(m)
        /\ Announced("sealevel") <=> options.elevation > SEALEVEL_MIN * Scale
        /\ AnnouncedOnline

\* a reconnect without elevation announced three descriptors
C6_Witness ==
    /\ conn_out.rc = 0 /\ conn_out.reconnect
    /\ options.elevation <= SEALEVEL_MIN * Scale
    /\ Len(conn_out.msgs) = 6
    /\ AnnouncedOnline

----------------------------------------------------------------------------
(* Cancellation *)

\* C7: once a signal has cleared read_loop the flag stays cleared, so that
\* the loop observes it, exits and publishes "offline".
C7_FlagStaysCleared == [][~read_loop => ~read_loop']_vars

\* the shutdown sequence has published "offline"
OfflineSent == pc \in {"loop_stop", "disconnect", "exit"}

\* C8: on cancellation "offline" is published exactly once, before the bus
\* client is stopped and disconnected, and no state message follows it.
C8_OfflineOnceThenRelease ==
    /\ [](/\ noffline = IF OfflineSent THEN 1 ELSE 0
          /\ pc \in {"wait", "setup", "loop", "offline", "loop_stop"}
                => bus_thread
          /\ pc = "exit" => ~bus_thread /\ link = "down")
    /\ [][noffline > 0 => nstate' = nstate]_vars

\* a run that published a state message was cancelled and has exited
C8_Witness ==
    /\ pc = "exit" /\ noffline = 1 /\ nstate > 0
    /\ status = "offline" /\ ~bus_thread

----------------------------------------------------------------------------
(* The state payload *)

Key(field) == <<options.section, field>>

HasField(field) == Key(field) \in DOMAIN state_msg

\* C9: the payload has the sealevel field exactly when the elevation exceeds
\* the sentinel -999, it always has humidity, temperature and pressure, and
\* building it changes neither the reading nor the configuration.
C9_SealevelIffElevation ==
    /\ [](pc = "published" =>
            /\ HasField("sealevel") <=> options.elevation > SEALEVEL_MIN * Scale
            /\ HasField("humidity") /\ HasField("temperature")
            /\ HasField("pressure")
            /\ \A k \in DOMAIN state_msg :
                  k[1] = options.section
                  /\ k[2] \in {"humidity", "temperature", "pressure",
                               "sealevel"})
    /\ [][pc = "publish_mqtt" =>
            sensor_data' = sensor_data /\ options' = options]_vars

\* a payload built at elevation 0 carries the sealevel field
C9_Witness ==
    /\ pc = "published"
    /\ options.elevation = 0
    /\ HasField("sealevel") /\ HasField("pressure")

Temp == sensor_data.temperature + options.toffset
Hum == sensor_data.humidity + options.hoffset
Press == sensor_data.pressure + options.poffset

ExampleReading ==
    [temperature |-> 20000, humidity |-> 50000, pressure |-> 1013000]

ZeroOffsets ==
    options.toffset = 0 /\ options.hoffset = 0 /\ options.poffset = 0

\* the two end-to-end examples of the payload
Examples ==
    (sensor_data = ExampleReading /\ ZeroOffsets) =>
        /\ state_msg[Key("humidity")] = 50000
        /\ state_msg[Key("temperature")] = 20000
        /\ state_msg[Key("pressure")] = 1013000
        /\ options.elevation = SEALEVEL_MIN * Scale => ~HasField("sealevel")
        /\ options.elevation = 92000 =>
              HasField("sealevel") /\ state_msg[Key("sealevel")] = 1023000

\* v is x rounded to a multiple of step
Nearest(v, x, step) == v % step = 0 /\ 2 * v - step <= 2 * x /\ 2 * x <= 2 * v + step

\* C10 as stated: the published fields are the sums themselves.
C10_ExactSums ==
    pc = "published" =>
        /\ state_msg[Key("temperature")] = Temp
        /\ state_msg[Key("humidity")] = Hum
        /\ state_msg[Key("pressure")] = Press
        /\ HasField("sealevel") =>
              state_msg[Key("sealevel")] * ELEV_DEN
                  = Press * ELEV_DEN + options.elevation * ELEV_NUM
        /\ Examples

\* C10 amended: the published fields are the sums rounded, temperature and
\* humidity to one decimal, pressure and sealevel to two; the two examples
\* hold as stated.
C10_RoundedSums ==
    pc = "published" =>
        /\ Nearest(state_msg[Key("temperature")], Temp, Scale \div 10)
        /\ Nearest(state_msg[Key("humidity")], Hum, Scale \div 10)
        /\ Nearest(state_msg[Key("pressure")], Press, Scale \div 100)
        /\ HasField("sealevel") =>
              Nearest(state_msg[Key("sealevel")] * ELEV_DEN,
                      Press * ELEV_DEN + options.elevation * ELEV_NUM,
                      ELEV_DEN * (Scale \div 100))
        /\ Examples

\* the example reading at elevation 92 was published with sealevel 1023.0
C10_Witness ==
    /\ pc = "published"
    /\ sensor_data = ExampleReading /\ ZeroOffsets
    /\ options.elevation = 92000
    /\ HasField("sealevel") /\ state_msg[Key("sealevel")] = 1023000

----------------------------------------------------------------------------
(* When state messages are published *)

\* the step is a pass of the poll loop
IsPass == pc = "loop" /\ now' # now

\* C11: a state message is published only by a pass whose rounded time is a
\* multiple of 60 and only once the warm-up flag is cleared; the flag is
\* cleared only by an earlier pass on a minute boundary whose reading was
\* not published; nothing else publishes a state message.
C11_PublishedOnlyOnBoundaryAfterWarmup ==
    /\ [](out.pubs = 1 =>
            out.my_time % PUBLISH_PERIOD = 0 /\ ~out.first_read)
    /\ [][nstate' # nstate =>
            /\ IsPass /\ nstate' = nstate + 1 /\ out'.pubs = 1
            /\ ~first_read]_vars
    /\ [][(first_read /\ ~first_read') =>
            /\ IsPass /\ out'.first_read /\ out'.pubs = 0
            /\ out'.my_time % PUBLISH_PERIOD = 0
            /\ nstate' = nstate /\ nstate = 0]_vars

\* a state message went out on the boundary after the warm-up boundary
C11_Witness ==
    /\ out.pubs = 1 /\ nstate = 1 /\ ~out.first_read
    /\ out.my_time = 4 * PUBLISH_PERIOD
    /\ DOMAIN state_msg # {}

----------------------------------------------------------------------------
(* Order of the announcement *)

IsOnline(m) == m.topic = <<"status">> /\ m.payload = "online" /\ m.retain

IsDescriptor(m) ==
    /\ Len(m.topic) = 3 /\ m.topic[3] = "config" /\ m.retain

\* positions of the descriptors among the messages of the last callback
DescriptorAt ==
    { i \in 1 .. Len(conn_out.msgs) : IsDescriptor(conn_out.msgs[i]) }

\* C12 as stated: no "online" message of a connection precedes the last
\* descriptor of that connection.
C12_OnlineAfterLastDescriptor ==
    conn_out.rc = 0 =>
        \A i \in 1 .. Len(conn_out.msgs) :
            IsOnline(conn_out.msgs[i]) => \A j \in DescriptorAt : j < i

\* C12 amended: on each successful connection every configured metric's
\* retained descriptor is immediately followed by a retained "online"
\* message, so the callback's messages alternate descriptor, "online" and
\* end with "online".
C12_OnlineAfterEachDescriptor ==
    conn_out.rc = 0 =>
        /\ Len(conn_out.msgs) = 2 * Cardinality(DescriptorAt)
        /\ Cardinality(DescriptorAt) =
              IF options.elevation > SEALEVEL_MIN * Scale THEN 4 ELSE 3
        /\ \A i \in 1 .. Len(conn_out.msgs) :
              IF i % 2 = 1 THEN IsDescriptor(conn_out.msgs[i])
              ELSE IsOnline(conn_out.msgs[i])

\* a connection with elevation announced four descriptors, each followed
\* by "online"
C12_Witness ==
    /\ conn_out.rc = 0
    /\ Len(conn_out.msgs) = 8
    /\ IsOnline(conn_out.msgs[2]) /\ IsDescriptor(conn_out.msgs[7])

----------------------------------------------------------------------------
(* Sensor faults and errors *)

\* C13 as stated: an error raised by the read step is handled through the
\* fault path and the loop keeps running; a crashed loop never occurs.
C13_ReadErrorNotFatal == pc # "crashed"

\* C13 amended: an implausible reading (raw pressure below 800 once the
\* warm-up flag is cleared) is non-fatal: the pass resets the sensor,
\* publishes nothing, the loop keeps running, and a later cancellation
\* still publishes "offline"; an exception raised by the read or the
\* reset is not caught and ends the process without "offline".
C13_FaultNotFatal ==
    /\ [][(IsPass /\ out'.fault) =>
            /\ pc' = "loop" /\ read_loop' = read_loop
            /\ bus_thread' = bus_thread
            /\ out'.setups = 1 /\ nstate' = nstate]_vars
    /\ [](pc = "crashed" => noffline = 0 /\ ~bus_thread)
    /\ (out.fault /\ pc = "loop" /\ ~read_loop) ~> (noffline = 1)

\* a cancelled run that had reset the sensor has published "offline"
C13_Witness ==
    /\ out.fault /\ out.setups = 1
    /\ pc = "exit" /\ noffline = 1

\* C14: the fault path publishes nothing and leaves the warm-up flag as it
\* is; the reading after a reset is evaluated like any other and is
\* published when it is on a minute boundary with a pressure of at least 800.
C14_FaultPathFrame ==
    /\ [][(IsPass /\ out'.fault) =>
            /\ first_read' = first_read
            /\ nstate' = nstate /\ state_msg' = state_msg
            /\ status' = status /\ noffline' = noffline
            /\ conn_out' = conn_out]_vars
    /\ [](out.kind = "after_reset" =>
            /\ ~out.first_read
            /\ out.fault <=> sensor_data.pressure < Floor
            /\ out.pubs = IF /\ sensor_data.pressure >= Floor
                             /\ out.my_time % PUBLISH_PERIOD = 0
                          THEN 1 ELSE 0)

\* the reading right after a reset was published
C14_Witness ==
    /\ out.kind = "after_reset"
    /\ sensor_data.pressure >= Floor
    /\ out.my_time % PUBLISH_PERIOD = 0
    /\ out.pubs = 1

----------------------------------------------------------------------------
(* The connection and the poll loop *)

\* the clock leaves room for one more pass
RoomForPass ==
    now + MaxOverhead + SLEEP_TIME * TicksPerSec <= MaxTime * TicksPerSec

\* C15: until on_connect has set the connection flag for the first time the
\* main thread is in its wait loop: no sensor setup, no reading, no state
\* message.  Once it has left the wait loop it never returns to it, and a
\* pass of the poll loop is possible whatever the state of the connection.
C15_WaitsOnlyForFirstConnection ==
    /\ [](~connected_flag =>
            /\ pc \in {"wait", "killed"}
            /\ out = NoIteration /\ sensor_data = NewSensorData
            /\ nstate = 0 /\ noffline = 0)
    /\ [][pc # "wait" => pc' # "wait"]_vars
    /\ []((pc = "loop" /\ read_loop /\ RoomForPass) => ENABLED Poll)

\* the connection is lost in the middle of a run, after the warm-up: the
\* loop can make its next pass
C15_Witness ==
    /\ link = "down" /\ connected_flag
    /\ pc = "loop" /\ read_loop /\ out.kind # "none" /\ ~first_read
    /\ ENABLED Poll

----------------------------------------------------------------------------
(* Shutdown against the background thread *)

\* C16 as stated: once the shutdown sequence has run to its end, the last
\* availability message published is "offline".
C16_LastStatusOffline == pc = "exit" => status = "offline"

----------------------------------------------------------------------------
(* The warm-up flag *)

\* C17: first_read is cleared only by a pass on a minute boundary; a pass
\* that finds it set resets nothing and publishes nothing, whatever the
\* pressure; once cleared it stays cleared.
C17_WarmupFlag ==
    /\ [][(first_read /\ ~first_read') =>
            IsPass /\ out'.my_time % PUBLISH_PERIOD = 0]_vars
    /\ [][(IsPass /\ first_read) =>
            /\ out'.first_read /\ ~out'.fault
            /\ out'.setups = 0 /\ out'.pubs = 0
            /\ nstate' = nstate /\ state_msg' = state_msg
            /\ first_read' = (out'.my_time % PUBLISH_PERIOD # 0)]_vars
    /\ [][~first_read => ~first_read']_vars

\* the warm-up pass on the boundary read a pressure below 800 and only
\* cleared the flag
C17_Witness ==
    /\ out.first_read /\ ~first_read
    /\ sensor_data.pressure < Floor
    /\ out.my_time % PUBLISH_PERIOD = 0
    /\ out.setups = 0 /\ out.pubs = 0

----------------------------------------------------------------------------
(* The connection flag *)

\* the step is a run of on_connect that was refused by the broker
IsRefusal == conn_out' # conn_out /\ conn_out'.rc # 0

\* C18: an on_connect with a non-zero return code publishes nothing and
\* changes neither the connection flag nor the availability; the flag
\* becomes set only in an on_connect with return code 0 and is never
\* cleared.
C18_FlagSetOnlyByAcceptedConnect ==
    /\ [](conn_out.rc \notin {0, NoCallback.rc} => conn_out.msgs = <<>>)
    /\ [][IsRefusal =>
            /\ connected_flag' = connected_flag
            /\ status' = status /\ link' = link
            /\ nstate' = nstate /\ state_msg' = state_msg
            /\ noffline' = noffline]_vars
    /\ [][(~connected_flag /\ connected_flag') =>
            /\ conn_out' # conn_out /\ conn_out'.rc = 0
            /\ ~conn_out'.reconnect]_vars
    /\ [][connected_flag => connected_flag']_vars

\* the broker refused the first connection: the main thread has slept
\* once and still waits, nothing was published
C18_Witness ==
    /\ conn_out.rc # 0 /\ conn_out.rc # NoCallback.rc
    /\ ~connected_flag /\ status = "none"
    /\ pc = "wait" /\ waits = 1

----------------------------------------------------------------------------
(* Discovery against state *)

\* the fields named by the value templates of the last announcement
Templates ==
    { conn_out.msgs[i].payload.value_template : i \in DescriptorAt }

\* C19: the field names of the announced descriptors' value templates are
\* exactly the fields of the published state message; in particular the
\* sea-level descriptor is announced exactly when the state message has
\* the sealevel field.
C19_DiscoveryMatchesState ==
    (conn_out.rc = 0 /\ nstate > 0) =>
        /\ Templates = DOMAIN state_msg
        /\ Key("sealevel") \in Templates <=> HasField("sealevel")
        /\ Cardinality(Templates) = Cardinality(DescriptorAt)

\* with an elevation, both the announcement and the state message have the
\* sea-level field
C19_Witness ==
    /\ conn_out.rc = 0 /\ nstate > 0
    /\ Key("sealevel") \in Templates
    /\ HasField("sealevel")
    /\ Cardinality(DOMAIN state_msg) = 4

====
